---- MODULE Spec2Model ----
(***************************************************************************)
(* A model of the spam-filtering bot.  RuleManager (src/src/rules.rs): the *)
(* SQLite tables `rules` and `senders`, the in-memory rule cache, the two  *)
(* mutexes, and the four public methods called concurrently by worker      *)
(* threads that share one Arc<RuleManager>; specification Spec has the     *)
(* methods called directly.  The handlers of src/src/main.rs with the      *)
(* helpers of src/src/utils.rs: specification BotSpec has the methods      *)
(* called by the handlers.                                                 *)
(***************************************************************************)
EXTENDS Integers, Sequences, FiniteSets, TLC

(***************************************************************************)
(* Bounds of the model.                                                    *)
(***************************************************************************)
\* Rows the `rules` table may hold.
MaxRules == 2
\* Successful sender upserts over a whole run, all senders together.
MaxIncs == 3

\* Worker threads that run handlers or call the RuleManager.
Procs == {"w1", "w2"}
\* No thread: the owner of a free mutex.
NoProc == "none"

SenderIds == {"u1", "u2"}
Texts == {"This is spam", "hello"}

(***************************************************************************)
(* f32 values: finite values are kept in tenths, NaN is its own value.     *)
(***************************************************************************)
F32(t) == [nan |-> FALSE, t |-> t]
NaN == [nan |-> TRUE, t |-> 0]

KwSpam == <<"s", "p", "a", "m">>
KwHttp == <<"h", "t", "t", "p">>

\* Rule arguments add_rule is called with (keyword, score).
RuleArgs ==
    { [keyword |-> KwSpam, score |-> F32(100)],
      [keyword |-> KwHttp, score |-> NaN] }

(***************************************************************************)
(* Text, as a sequence of characters.                                      *)
(***************************************************************************)
DigitChars == <<"0", "1", "2", "3", "4", "5", "6", "7", "8", "9">>

IsDigit(c) == \E d \in 1..10 : DigitChars[d] = c

DigitVal(c) == (CHOOSE d \in 1..10 : DigitChars[d] = c) - 1

RECURSIVE NatToChars(_)
NatToChars(n) ==
    IF n < 10 THEN <<DigitChars[n + 1]>>
    ELSE NatToChars(n \div 10) \o <<DigitChars[(n % 10) + 1]>>

Abs(n) == IF n < 0 THEN -n ELSE n

\* f32's Display, as used by score.to_string(): "10" for 10.0, "0.5" for 0.5,
\* "NaN" for NaN.
F32ToString(x) ==
    IF x.nan THEN <<"N", "a", "N">>
    ELSE (IF x.t < 0 THEN <<"-">> ELSE <<>>)
         \o NatToChars(Abs(x.t) \div 10)
         \o (IF Abs(x.t) % 10 = 0 THEN <<>>
             ELSE <<".", DigitChars[(Abs(x.t) % 10) + 1]>>)

\* i32's Display, as used by increment.to_string().
I32ToString(n) == (IF n < 0 THEN <<"-">> ELSE <<>>) \o NatToChars(Abs(n))

RECURSIVE AllDigits(_)
AllDigits(s) == s = <<>> \/ (IsDigit(Head(s)) /\ AllDigits(Tail(s)))

RECURSIVE DigitsVal(_, _)
DigitsVal(s, acc) ==
    IF s = <<>> THEN acc ELSE DigitsVal(Tail(s), acc * 10 + DigitVal(Head(s)))

DotIndex(s) ==
    IF \E i \in 1..Len(s) : s[i] = "."
    THEN CHOOSE i \in 1..Len(s) : s[i] = "." /\ \A j \in 1..(i - 1) : s[j] # "."
    ELSE 0

\* SQLite's text-to-number conversion of a well-formed decimal literal
\* (optional sign, digits, optional fraction); the value is kept in tenths,
\* further fraction digits are cut.
ParseDecimal(s) ==
    LET neg == s # <<>> /\ Head(s) = "-"
        body == IF neg THEN Tail(s) ELSE s
        dot == DotIndex(body)
        ip == IF dot = 0 THEN body ELSE SubSeq(body, 1, dot - 1)
        fp == IF dot = 0 THEN <<>> ELSE SubSeq(body, dot + 1, Len(body))
        ok == ip # <<>> /\ AllDigits(ip) /\ AllDigits(fp)
        mag == DigitsVal(ip, 0) * 10 + (IF fp = <<>> THEN 0 ELSE DigitVal(Head(fp)))
    IN  IF ok THEN [ok |-> TRUE, tenths |-> IF neg THEN -mag ELSE mag]
        ELSE [ok |-> FALSE, tenths |-> 0]

(***************************************************************************)
(* SQLite values and column affinity.                                      *)
(***************************************************************************)
SqlReal(t) == [type |-> "real", num |-> t, str |-> <<>>]
SqlInteger(n) == [type |-> "integer", num |-> n, str |-> <<>>]
SqlText(s) == [type |-> "text", num |-> 0, str |-> s]

\* A TEXT parameter stored in a column of REAL affinity: a well-formed number
\* becomes a REAL, anything else stays TEXT.
RealAffinity(s) ==
    LET p == ParseDecimal(s)
    IN  IF p.ok THEN SqlReal(p.tenths) ELSE SqlText(s)

\* A TEXT parameter used as an INTEGER column value or as an operand of +.
IntegerAffinity(s) ==
    LET p == ParseDecimal(s)
    IN  IF p.ok /\ p.tenths % 10 = 0 THEN SqlInteger(p.tenths \div 10) ELSE SqlText(s)

\* rusqlite's FromSql for f32: REAL and INTEGER convert, anything else is an
\* InvalidColumnType error.
FromSqlF32(v) ==
    CASE v.type = "real" -> [ok |-> TRUE, val |-> F32(v.num)]
      [] v.type = "integer" -> [ok |-> TRUE, val |-> F32(v.num * 10)]
      [] OTHER -> [ok |-> FALSE, val |-> F32(0)]

\* rusqlite's FromSql for i32.
FromSqlI32(v) ==
    IF v.type = "integer" THEN [ok |-> TRUE, val |-> v.num] ELSE [ok |-> FALSE, val |-> 0]

(***************************************************************************)
(* The SQL statements.                                                     *)
(***************************************************************************)
\* The statement is executed twice.
InsertRuleTwice(table, keyword, score) ==
    LET row == [keyword |-> keyword, score |-> RealAffinity(F32ToString(score))]
    IN  Append(Append(table, row), row)

\* INSERT INTO rules (keyword, score) VALUES (?1, ?2), ?2 bound as text.
InsertRule(table, keyword, score) ==
    Append(table, [keyword |-> keyword, score |-> RealAffinity(F32ToString(score))])

\* The row of the rules table that a cached Rule was written as.
RowOf(rule) == [keyword |-> rule.keyword, score |-> RealAffinity(F32ToString(rule.score))]

\* SELECT keyword, score FROM rules, collected into Result<Vec<Rule>>.
LoadAllRules(table) ==
    IF \A i \in 1..Len(table) : FromSqlF32(table[i].score).ok
    THEN [ok |-> TRUE,
          rules |-> [i \in 1..Len(table) |->
                        [keyword |-> table[i].keyword,
                         score |-> FromSqlF32(table[i].score).val]]]
    ELSE [ok |-> FALSE, rules |-> <<>>]

\* The increment bound as ?2: "1" for spam, "0" otherwise.
IncrementParam(is_spam) == I32ToString(IF is_spam THEN 1 ELSE 0)

\* The decrementing variant: a non-spam message takes one off the score.
UpsertSenderDecrementing(tbl, user_id, param) ==
    LET inc == IntegerAffinity(param).num
        delta == IF inc = 1 THEN 1 ELSE -1
    IN  IF user_id \in DOMAIN tbl
        THEN [tbl EXCEPT ![user_id] =
                 [spam_score |-> @.spam_score + delta,
                  message_count |-> @.message_count + 1]]
        ELSE [u \in DOMAIN tbl \cup {user_id} |->
                 IF u = user_id
                 THEN [spam_score |-> inc, message_count |-> 1]
                 ELSE tbl[u]]

\* The update is applied to every row, not to the conflicting one alone.
UpsertSenderEveryRow(tbl, user_id, param) ==
    LET inc == IntegerAffinity(param).num
    IN  IF user_id \in DOMAIN tbl
        THEN [u \in DOMAIN tbl |->
                 [spam_score |-> tbl[u].spam_score + inc,
                  message_count |-> tbl[u].message_count + 1]]
        ELSE [u \in DOMAIN tbl \cup {user_id} |->
                 IF u = user_id
                 THEN [spam_score |-> inc, message_count |-> 1]
                 ELSE tbl[u]]

\* The update branch forgets the message counter.
UpsertSenderNoCount(tbl, user_id, param) ==
    LET inc == IntegerAffinity(param).num
    IN  IF user_id \in DOMAIN tbl
        THEN [tbl EXCEPT ![user_id] =
                 [spam_score |-> @.spam_score + inc,
                  message_count |-> @.message_count]]
        ELSE [u \in DOMAIN tbl \cup {user_id} |->
                 IF u = user_id
                 THEN [spam_score |-> inc, message_count |-> 1]
                 ELSE tbl[u]]

\* A new row takes the column default 0 as its message_count.
UpsertSenderDefaultCount(tbl, user_id, param) ==
    LET inc == IntegerAffinity(param).num
    IN  IF user_id \in DOMAIN tbl
        THEN [tbl EXCEPT ![user_id] =
                 [spam_score |-> @.spam_score + inc,
                  message_count |-> @.message_count + 1]]
        ELSE [u \in DOMAIN tbl \cup {user_id} |->
                 IF u = user_id
                 THEN [spam_score |-> inc, message_count |-> 0]
                 ELSE tbl[u]]

\* INSERT INTO senders ... VALUES (?1, ?2, 1) ON CONFLICT(user_id) DO UPDATE
\* SET spam_score = spam_score + ?2, message_count = message_count + 1.
UpsertSender(tbl, user_id, param) ==
    LET inc == IntegerAffinity(param).num
    IN  IF user_id \in DOMAIN tbl
        THEN [tbl EXCEPT ![user_id] =
                 [spam_score |-> @.spam_score + inc,
                  message_count |-> @.message_count + 1]]
        ELSE [u \in DOMAIN tbl \cup {user_id} |->
                 IF u = user_id
                 THEN [spam_score |-> inc, message_count |-> 1]
                 ELSE tbl[u]]

\* The query has no WHERE clause: query_row answers with the first row.
QuerySpamScoreAnyRow(tbl, user_id) ==
    IF DOMAIN tbl # {}
    THEN FromSqlI32(SqlInteger(tbl[CHOOSE u \in DOMAIN tbl : TRUE].spam_score))
    ELSE [ok |-> FALSE, val |-> 0]

\* SELECT spam_score FROM senders WHERE user_id = ?1, through query_row: no
\* row is the QueryReturnedNoRows error.
QuerySpamScore(tbl, user_id) ==
    IF user_id \in DOMAIN tbl
    THEN FromSqlI32(SqlInteger(tbl[user_id].spam_score))
    ELSE [ok |-> FALSE, val |-> 0]

\* Result::unwrap_or.
UnwrapOr(r, default) == IF r.ok THEN r.val ELSE default

\* The score from which a message is spam: 5.0, in tenths.
SPAM_THRESHOLD == 50

(***************************************************************************)
(* The scoring script rules.lua, as check_custom_rules finds it on a call. *)
(***************************************************************************)
Scripts == {"absent", "syntax_error", "no_check_spam", "returns_text", "keyword10", "boundary5"}

\* The contents with which the script cannot be read, loaded or run, lacks
\* check_spam, or returns no number.
FailingScripts == {"absent", "syntax_error", "no_check_spam", "returns_text"}

\* string.lower(message):find("spam").
LowerFindsSpam(text) == text \in {"This is spam"}

\* The closure given to lua.context: Ok(score) or a rlua::Error.
RunScript(content, text) ==
    CASE content = "absent" -> [ok |-> TRUE, val |-> F32(0)]
      [] content = "keyword10" ->
            [ok |-> TRUE, val |-> IF LowerFindsSpam(text) THEN F32(100) ELSE F32(0)]
      [] content = "boundary5" ->
            [ok |-> TRUE, val |-> IF LowerFindsSpam(text) THEN F32(50) ELSE F32(49)]
      [] OTHER -> [ok |-> FALSE, val |-> F32(0)]

(***************************************************************************)
(* State.                                                                  *)
(***************************************************************************)
VARIABLES
    rulesTable,     \* the rows of table `rules`, in insertion order
    senders,        \* table `senders`: user_id -> [spam_score, message_count]
    rules,          \* RuleManager.rules, the cache of Rule values
    connOwner,      \* the thread holding the guard of RuleManager.conn
    connPoisoned,   \* RuleManager.conn was poisoned by a panic under its guard
    rulesOwner,     \* the thread holding the guard of RuleManager.rules
    up,             \* how main's RuleManager::new ended: "running" after Ok,
                    \* "open_failed" or "load_failed" after the Err main dies of
    pc,             \* per thread: its position inside a RuleManager method
    call,           \* per thread: the method it is in and its arguments
    res,            \* per thread: what the method returned
    acked,          \* history: per sender, its successful upserts and how many were spam
    h               \* per thread: the handler of main.rs it runs

storeVars == <<rulesTable, senders, acked>>
lockVars == <<connOwner, connPoisoned, rulesOwner>>
vars == <<rulesTable, senders, rules, connOwner, connPoisoned, rulesOwner, up, pc, call, res, acked, h>>

NoCall == [op |-> "none", keyword |-> <<>>, score |-> F32(0), user_id |-> "",
           is_spam |-> FALSE, text |-> ""]
\* What a method returned; `script` and `seen` are history: the script content
\* a score was computed from, and the message_count the sender's row had when
\* its score was read (every write of the row adds one to it).
NoRes == [tag |-> "none", n |-> 0, f |-> F32(0), script |-> "", seen |-> 0]
ResOk == [NoRes EXCEPT !.tag = "Ok"]
ResErr == [NoRes EXCEPT !.tag = "Err"]
ResI32(n) == [NoRes EXCEPT !.tag = "i32", !.n = n]
ResF32(f, content) == [NoRes EXCEPT !.tag = "f32", !.f = f, !.script = content]

\* A thread outside every handler; the fields are the handler's locals
\* (score is the computed score up to its last use; chat and args are the
\* chat and the arguments of an /add_rule being carried out), the last three its
\* history: sender upserts that succeeded, messages sent, and what the
\* handler returned.
NoHandler == [kind |-> "none", hpc |-> "none", user |-> "", chat |-> "",
              args |-> <<>>, scored |-> FALSE, score |-> F32(0), is_spam |-> FALSE,
              incs |-> 0, sent |-> {}, result |-> ""]

EmptySenders == [u \in {} |-> [spam_score |-> 0, message_count |-> 0]]

RECURSIVE SumCalls(_, _)
SumCalls(f, S) ==
    IF S = {} THEN 0
    ELSE LET x == CHOOSE y \in S : TRUE IN f[x].calls + SumCalls(f, S \ {x})

\* The message_count of a sender's row, 0 without a row.
MessageCount(tbl, user_id) ==
    IF user_id \in DOMAIN tbl THEN tbl[user_id].message_count ELSE 0

\* The method a thread has returned from; of the arguments, which were
\* borrowed or moved, the user_id of a score read is still the caller's.
Returned(c) ==
    [NoCall EXCEPT !.op = c.op,
                   !.user_id = IF c.op = "get_sender_score" THEN c.user_id ELSE ""]

\* RuleManager::new on a database file that does not exist yet.
Init ==
    /\ rulesTable = <<>>
    /\ senders = EmptySenders
    /\ rules = LoadAllRules(<<>>).rules
    /\ connOwner = NoProc
    /\ connPoisoned = FALSE
    /\ rulesOwner = NoProc
    /\ up = "running"
    /\ pc = [p \in Procs |-> "idle"]
    /\ call = [p \in Procs |-> NoCall]
    /\ res = [p \in Procs |-> NoRes]
    /\ acked = [u \in SenderIds |-> [calls |-> 0, spam |-> 0]]
    /\ h = [p \in Procs |-> NoHandler]

\* self.conn.lock().unwrap(): blocks while another thread holds the guard and
\* panics on a poisoned mutex.
LockConn(p, next) ==
    /\ connOwner = NoProc
    /\ IF connPoisoned
       THEN /\ pc' = [pc EXCEPT ![p] = "panic"]
            /\ call' = [call EXCEPT ![p] = Returned(@)]
            /\ UNCHANGED connOwner
       ELSE /\ pc' = [pc EXCEPT ![p] = next]
            /\ connOwner' = p
            /\ UNCHANGED call
    /\ UNCHANGED <<connPoisoned, rulesOwner>>

(***************************************************************************)
(* RuleManager::add_rule.                                                  *)
(***************************************************************************)
AddRuleLock(p) ==
    /\ pc[p] = "ar_lock"
    /\ LockConn(p, "ar_exec")
    /\ UNCHANGED <<storeVars, rules, up, res, h>>

\* The cache is appended, whatever the insert returned.
AddRuleExecCacheFirst(p) ==
    /\ pc[p] = "ar_exec"
    /\ \E ok \in BOOLEAN :
        IF ok
        THEN /\ rulesTable' = InsertRule(rulesTable, call[p].keyword, call[p].score)
             /\ pc' = [pc EXCEPT ![p] = "ar_rlock"]
             /\ UNCHANGED <<connOwner, res, rules, call>>
        ELSE /\ connOwner' = NoProc
             /\ rules' = Append(rules, [keyword |-> call[p].keyword, score |-> call[p].score])
             /\ res' = [res EXCEPT ![p] = ResErr]
             /\ pc' = [pc EXCEPT ![p] = "ret"]
             /\ call' = [call EXCEPT ![p] = Returned(@)]
             /\ UNCHANGED rulesTable
    /\ UNCHANGED <<senders, acked, connPoisoned, rulesOwner, up, h>>

\* The guard of conn is dropped as soon as the insert has returned.
AddRuleExecStoreReleased(p) ==
    /\ pc[p] = "ar_exec"
    /\ \E ok \in BOOLEAN :
        IF ok
        THEN /\ rulesTable' = InsertRule(rulesTable, call[p].keyword, call[p].score)
             /\ pc' = [pc EXCEPT ![p] = "ar_rlock"]
             /\ UNCHANGED <<res, call>>
        ELSE /\ res' = [res EXCEPT ![p] = ResErr]
             /\ pc' = [pc EXCEPT ![p] = "ret"]
             /\ call' = [call EXCEPT ![p] = Returned(@)]
             /\ UNCHANGED rulesTable
    /\ connOwner' = NoProc
    /\ UNCHANGED <<senders, acked, rules, connPoisoned, rulesOwner, up, h>>

\* conn.execute(INSERT ...)?: on an error the guard is dropped and the error
\* returned.
AddRuleExec(p) ==
    /\ pc[p] = "ar_exec"
    /\ \E ok \in BOOLEAN :
        IF ok
        THEN /\ rulesTable' = InsertRule(rulesTable, call[p].keyword, call[p].score)
             /\ pc' = [pc EXCEPT ![p] = "ar_rlock"]
             /\ UNCHANGED <<connOwner, res, call>>
        ELSE /\ connOwner' = NoProc
             /\ res' = [res EXCEPT ![p] = ResErr]
             /\ pc' = [pc EXCEPT ![p] = "ret"]
             /\ call' = [call EXCEPT ![p] = Returned(@)]
             /\ UNCHANGED rulesTable
    /\ UNCHANGED <<senders, acked, rules, connPoisoned, rulesOwner, up, h>>

\* self.rules.lock().unwrap().
AddRuleCacheLock(p) ==
    /\ pc[p] = "ar_rlock"
    /\ rulesOwner = NoProc
    /\ rulesOwner' = p
    /\ pc' = [pc EXCEPT ![p] = "ar_push"]
    /\ UNCHANGED <<storeVars, rules, connOwner, connPoisoned, up, call, res, h>>

\* A cached rule of the same keyword is overwritten, not joined.
AddRulePushReplacing(p) ==
    /\ pc[p] = "ar_push"
    /\ LET new == [keyword |-> call[p].keyword, score |-> call[p].score]
       IN  rules' = IF \E i \in DOMAIN rules : rules[i].keyword = new.keyword
                    THEN [i \in DOMAIN rules |->
                             IF rules[i].keyword = new.keyword THEN new ELSE rules[i]]
                    ELSE Append(rules, new)
    /\ rulesOwner' = NoProc
    /\ connOwner' = NoProc
    /\ res' = [res EXCEPT ![p] = ResOk]
    /\ pc' = [pc EXCEPT ![p] = "ret"]
    /\ call' = [call EXCEPT ![p] = Returned(@)]
    /\ UNCHANGED <<storeVars, connPoisoned, up, h>>

\* Ok(()) is returned without the push.
AddRulePushSkipped(p) ==
    /\ pc[p] = "ar_push"
    /\ rulesOwner' = NoProc
    /\ connOwner' = NoProc
    /\ res' = [res EXCEPT ![p] = ResOk]
    /\ pc' = [pc EXCEPT ![p] = "ret"]
    /\ call' = [call EXCEPT ![p] = Returned(@)]
    /\ UNCHANGED <<storeVars, rules, connPoisoned, up, h>>

\* The guard of conn outlives the call.
AddRulePushStoreGuardKept(p) ==
    /\ pc[p] = "ar_push"
    /\ rules' = Append(rules, [keyword |-> call[p].keyword, score |-> call[p].score])
    /\ rulesOwner' = NoProc
    /\ res' = [res EXCEPT ![p] = ResOk]
    /\ pc' = [pc EXCEPT ![p] = "ret"]
    /\ call' = [call EXCEPT ![p] = Returned(@)]
    /\ UNCHANGED <<storeVars, connOwner, connPoisoned, up, h>>

\* rules.push(Rule { keyword, score }); Ok(()): both guards are dropped.
AddRulePush(p) ==
    /\ pc[p] = "ar_push"
    /\ rules' = Append(rules, [keyword |-> call[p].keyword, score |-> call[p].score])
    /\ rulesOwner' = NoProc
    /\ connOwner' = NoProc
    /\ res' = [res EXCEPT ![p] = ResOk]
    /\ pc' = [pc EXCEPT ![p] = "ret"]
    /\ call' = [call EXCEPT ![p] = Returned(@)]
    /\ UNCHANGED <<storeVars, connPoisoned, up, h>>

(***************************************************************************)
(* RuleManager::increment_sender_score.                                    *)
(***************************************************************************)
\* The statement runs without the guard of conn.
IncrementLockSkipped(p) ==
    /\ pc[p] = "inc_lock"
    /\ pc' = [pc EXCEPT ![p] = "inc_exec"]
    /\ UNCHANGED <<storeVars, rules, lockVars, up, call, res, h>>

IncrementLock(p) ==
    /\ pc[p] = "inc_lock"
    /\ LockConn(p, "inc_exec")
    /\ UNCHANGED <<storeVars, rules, up, res, h>>

\* conn.execute(INSERT ... ON CONFLICT ...)?; Ok(()).
IncrementExec(p) ==
    /\ pc[p] = "inc_exec"
    /\ \E ok \in BOOLEAN :
        IF ok
        THEN /\ senders' = UpsertSender(senders, call[p].user_id,
                                        IncrementParam(call[p].is_spam))
             /\ acked' = [acked EXCEPT ![call[p].user_id] =
                              [calls |-> @.calls + 1,
                               spam |-> @.spam + (IF call[p].is_spam THEN 1 ELSE 0)]]
             /\ res' = [res EXCEPT ![p] = ResOk]
        ELSE /\ res' = [res EXCEPT ![p] = ResErr]
             /\ UNCHANGED <<senders, acked>>
    /\ connOwner' = IF connOwner = p THEN NoProc ELSE connOwner
    /\ pc' = [pc EXCEPT ![p] = "ret"]
    /\ call' = [call EXCEPT ![p] = Returned(@)]
    /\ UNCHANGED <<rulesTable, rules, connPoisoned, rulesOwner, up, h>>

(***************************************************************************)
(* RuleManager::get_sender_score.                                          *)
(***************************************************************************)
GetLock(p) ==
    /\ pc[p] = "get_lock"
    /\ LockConn(p, "get_prepare")
    /\ UNCHANGED <<storeVars, rules, up, res, h>>

\* conn.prepare(SELECT ...).unwrap(): an error panics under the guard of
\* conn, which poisons the mutex.
GetPrepare(p) ==
    /\ pc[p] = "get_prepare"
    /\ \E ok \in BOOLEAN :
        IF ok
        THEN /\ pc' = [pc EXCEPT ![p] = "get_query"]
             /\ UNCHANGED <<connOwner, connPoisoned, call>>
        ELSE /\ pc' = [pc EXCEPT ![p] = "panic"]
             /\ call' = [call EXCEPT ![p] = Returned(@)]
             /\ connOwner' = NoProc
             /\ connPoisoned' = TRUE
    /\ UNCHANGED <<storeVars, rules, rulesOwner, up, res, h>>

\* stmt.query_row(&[user_id], |row| row.get(0)).unwrap_or(0).
GetQuery(p) ==
    /\ pc[p] = "get_query"
    /\ \E ok \in BOOLEAN :
        LET r == IF ok THEN QuerySpamScore(senders, call[p].user_id)
                 ELSE [ok |-> FALSE, val |-> 0]
        IN  res' = [res EXCEPT ![p] = [ResI32(UnwrapOr(r, 0)) EXCEPT !.seen =
                                       MessageCount(senders, call[p].user_id)]]
    /\ connOwner' = NoProc
    /\ pc' = [pc EXCEPT ![p] = "ret"]
    /\ call' = [call EXCEPT ![p] = Returned(@)]
    /\ UNCHANGED <<storeVars, rules, connPoisoned, rulesOwner, up, h>>

(***************************************************************************)
(* RuleManager::check_custom_rules.                                        *)
(***************************************************************************)
\* The cached rules whose keyword the text holds add their scores to the
\* script's.
CheckCustomRulesWithCache(p) ==
    /\ pc[p] = "ccr"
    /\ \E content \in Scripts :
        LET s == UnwrapOr(RunScript(content, call[p].text), F32(0))
            hit == \E i \in DOMAIN rules :
                      rules[i].keyword = KwSpam /\ LowerFindsSpam(call[p].text)
        IN  res' = [res EXCEPT ![p] = ResF32(IF hit THEN F32(s.t + 100) ELSE s, content)]
    /\ pc' = [pc EXCEPT ![p] = "ret"]
    /\ UNCHANGED <<storeVars, rules, lockVars, up, call, h>>

\* A failure of the script is scored as spam, not as 0.0.
CheckCustomRulesFailClosed(p) ==
    /\ pc[p] = "ccr"
    /\ \E content \in Scripts :
        res' = [res EXCEPT ![p] =
                   ResF32(UnwrapOr(RunScript(content, call[p].text), F32(100)), content)]
    /\ pc' = [pc EXCEPT ![p] = "ret"]
    /\ UNCHANGED <<storeVars, rules, lockVars, up, call, h>>

CheckCustomRules(p) ==
    /\ pc[p] = "ccr"
    /\ \E content \in Scripts :
        res' = [res EXCEPT ![p] =
                   ResF32(UnwrapOr(RunScript(content, call[p].text), F32(0)), content)]
    /\ pc' = [pc EXCEPT ![p] = "ret"]
    /\ UNCHANGED <<storeVars, rules, lockVars, up, call, h>>

(***************************************************************************)
(* The process: main() builds the RuleManager on the database file; a      *)
(* restart runs it again on the rows the last run left.                    *)
(***************************************************************************)
\* RuleManager::new: CREATE TABLE IF NOT EXISTS keeps the rows, the cache is
\* what the SELECT loads.
New(table) == LoadAllRules(table)

Restart ==
    /\ \E opened \in BOOLEAN :
        LET m == New(rulesTable)
        IN  /\ up' = IF ~opened THEN "open_failed"
                      ELSE IF m.ok THEN "running" ELSE "load_failed"
            /\ rules' = IF opened /\ m.ok THEN m.rules ELSE <<>>
    /\ connOwner' = NoProc
    /\ connPoisoned' = FALSE
    /\ rulesOwner' = NoProc
    /\ pc' = [p \in Procs |-> "idle"]
    /\ call' = [p \in Procs |-> NoCall]
    /\ res' = [p \in Procs |-> NoRes]
    /\ h' = [p \in Procs |-> NoHandler]
    /\ UNCHANGED storeVars

(***************************************************************************)
(* Callers of the library: a thread calls one method and takes its result. *)
(***************************************************************************)
InAddRuleBeforeInsert == {p \in Procs : pc[p] \in {"ar_lock", "ar_exec"}}
InIncrement == {p \in Procs : pc[p] \in {"inc_lock", "inc_exec"}}

RoomForRule == Len(rulesTable) + Cardinality(InAddRuleBeforeInsert) < MaxRules
RoomForIncrement == SumCalls(acked, SenderIds) + Cardinality(InIncrement) < MaxIncs

Enter(p, c, first) ==
    /\ pc' = [pc EXCEPT ![p] = first]
    /\ call' = [call EXCEPT ![p] = c]
    /\ res' = [res EXCEPT ![p] = NoRes]

CallAddRule(p) ==
    /\ up = "running" /\ pc[p] = "idle" /\ h[p] = NoHandler
    /\ RoomForRule
    /\ \E r \in RuleArgs :
        Enter(p, [NoCall EXCEPT !.op = "add_rule", !.keyword = r.keyword, !.score = r.score],
              "ar_lock")
    /\ UNCHANGED <<storeVars, rules, lockVars, up, h>>

CallIncrementSenderScore(p) ==
    /\ up = "running" /\ pc[p] = "idle" /\ h[p] = NoHandler
    /\ RoomForIncrement
    /\ \E u \in SenderIds, f \in BOOLEAN :
        Enter(p, [NoCall EXCEPT !.op = "increment_sender_score", !.user_id = u, !.is_spam = f],
              "inc_lock")
    /\ UNCHANGED <<storeVars, rules, lockVars, up, h>>

CallGetSenderScore(p) ==
    /\ up = "running" /\ pc[p] = "idle" /\ h[p] = NoHandler
    /\ \E u \in SenderIds :
        Enter(p, [NoCall EXCEPT !.op = "get_sender_score", !.user_id = u], "get_lock")
    /\ UNCHANGED <<storeVars, rules, lockVars, up, h>>

CallCheckCustomRules(p) ==
    /\ up = "running" /\ pc[p] = "idle" /\ h[p] = NoHandler
    /\ \E t \in Texts :
        Enter(p, [NoCall EXCEPT !.op = "check_custom_rules", !.text = t], "ccr")
    /\ UNCHANGED <<storeVars, rules, lockVars, up, h>>

\* The caller takes the result, or its thread unwinds from the panic.
Return(p) ==
    /\ pc[p] \in {"ret", "panic"} /\ h[p] = NoHandler
    /\ pc' = [pc EXCEPT ![p] = "idle"]
    /\ call' = [call EXCEPT ![p] = NoCall]
    /\ res' = [res EXCEPT ![p] = NoRes]
    /\ UNCHANGED <<storeVars, rules, lockVars, up, h>>

Method(p) ==
    \/ AddRuleLock(p) \/ AddRuleExec(p) \/ AddRuleCacheLock(p) \/ AddRulePush(p)
    \/ IncrementLock(p) \/ IncrementExec(p)
    \/ GetLock(p) \/ GetPrepare(p) \/ GetQuery(p)
    \/ CheckCustomRules(p)

Next ==
    \/ \E p \in Procs : Method(p)
    \/ \E p \in Procs : CallAddRule(p)
    \/ \E p \in Procs : CallIncrementSenderScore(p)
    \/ \E p \in Procs : CallGetSenderScore(p)
    \/ \E p \in Procs : CallCheckCustomRules(p)
    \/ \E p \in Procs : Return(p)
    \/ Restart

Spec == Init /\ [][Next]_vars

(***************************************************************************)
(* The handlers of main.rs, each run by a worker thread on one update.     *)
(***************************************************************************)
BotUsers == {"u1"}
CommandTexts == {"/unknown"}
NonText == "(non-text message)"

\* text.starts_with('/').
StartsWithSlash(text) == text \in CommandTexts

\* The comparison is strict.
IsSpamExclusive(score) == ~score.nan /\ score.t > SPAM_THRESHOLD

\* The classification of a score.
IsSpam(score) == ~score.nan /\ score.t >= SPAM_THRESHOLD

\* The arguments of /add_rule, as typed.
ArgStrings ==
    { KwSpam \o <<" ", "1", "0">>,
      KwSpam,
      KwSpam \o <<" ", "t", "e", "n">> }

\* args.split_whitespace().collect().
RECURSIVE SplitWhitespace(_, _, _)
SplitWhitespace(s, word, acc) ==
    IF s = <<>> THEN (IF word = <<>> THEN acc ELSE Append(acc, word))
    ELSE IF Head(s) = " "
         THEN SplitWhitespace(Tail(s), <<>>, IF word = <<>> THEN acc ELSE Append(acc, word))
         ELSE SplitWhitespace(Tail(s), Append(word, Head(s)), acc)

\* parts[1].parse::<f32>(): decimal literals and "NaN" parse.
ParseF32(tok) ==
    IF tok = <<"N", "a", "N">> THEN [ok |-> TRUE, val |-> NaN]
    ELSE LET d == ParseDecimal(tok)
         IN  [ok |-> d.ok, val |-> F32(d.tenths)]

\* The chat a command comes from and its sender's standing there: a private
\* chat, or a group whose administrators, once fetched, list the sender or
\* do not, or cannot be fetched.
ChatCases == {"private", "group_admin", "group_member", "group_fetch_error"}

\* A failed admin check counts as passed.
IsAdminDefaultTrue(private, fetched, listed) ==
    IF private THEN TRUE ELSE (~fetched \/ listed)

\* utils::is_admin(...).await.unwrap_or(false): a private chat makes every
\* user an admin; in a group the administrators are fetched.
IsAdmin(private, fetched, listed) ==
    IF private THEN TRUE ELSE (fetched /\ listed)

\* utils::notify_admins after its read of the sender's score: the messages
\* it sends and what it returns. `admins` is the result of
\* get_chat_administrators, `delivered` that of the send it depends on.
NotifyAdmins(is_group, admins, delivered) ==
    IF is_group
    THEN CASE admins = "some" ->
                [ok |-> TRUE, sent |-> IF delivered THEN {"admin_dm"} ELSE {}]
           [] OTHER ->
                [ok |-> delivered, sent |-> IF delivered THEN {"group_fallback"} ELSE {}]
    ELSE [ok |-> delivered, sent |-> IF delivered THEN {"chat_notification"} ELSE {}]

Handling(p) == h[p].kind # "none"

\* What notify_admins may send.
AdminNotifications == {"admin_dm", "group_fallback", "chat_notification"}

\* Flows that have not yet made the sender upsert they may still make.
BeforeIncrement ==
    {p \in Procs : h[p].hpc \in {"cm_scoring", "rp_scoring", "rp_reply"}} \cup InIncrement

BotRoomForIncrement == SumCalls(acked, SenderIds) + Cardinality(BeforeIncrement) < MaxIncs

Done(hp, result) ==
    [hp EXCEPT !.hpc = "done", !.user = "", !.chat = "", !.args = <<>>,
               !.score = F32(0), !.result = result]

Idle(p) == up = "running" /\ pc[p] = "idle" /\ h[p] = NoHandler

\* check_message on a text update; a command is skipped.
CheckMessageStart(p) ==
    /\ Idle(p)
    /\ BotRoomForIncrement
    /\ \E text \in Texts \cup CommandTexts, user \in BotUsers :
        LET hp == [NoHandler EXCEPT !.kind = "check_message", !.user = user]
        IN  IF StartsWithSlash(text)
            THEN /\ h' = [h EXCEPT ![p] = Done(hp, "Ok")]
                 /\ UNCHANGED <<pc, call, res>>
            ELSE /\ h' = [h EXCEPT ![p] = [hp EXCEPT !.hpc = "cm_scoring"]]
                 /\ Enter(p, [NoCall EXCEPT !.op = "check_custom_rules", !.text = text], "ccr")
    /\ UNCHANGED <<storeVars, rules, lockVars, up>>

\* The spam notice is sent before the sender's record is updated.
CheckMessageScoredNoticeFirst(p) ==
    /\ pc[p] = "ret" /\ h[p].hpc = "cm_scoring"
    /\ h' = [h EXCEPT ![p] = [@ EXCEPT !.hpc = "cm_updating", !.scored = TRUE,
                                        !.score = res[p].f,
                                        !.is_spam = IsSpam(res[p].f),
                                        !.sent = IF IsSpam(res[p].f)
                                                 THEN {"spam_notice"} ELSE {}]]
    /\ Enter(p, [NoCall EXCEPT !.op = "increment_sender_score", !.user_id = h[p].user,
                                !.is_spam = IsSpam(res[p].f)], "inc_lock")
    /\ UNCHANGED <<storeVars, rules, lockVars, up>>

\* custom_score is back; the sender's record is updated with is_spam.
CheckMessageScored(p) ==
    /\ pc[p] = "ret" /\ h[p].hpc = "cm_scoring"
    /\ h' = [h EXCEPT ![p] = [@ EXCEPT !.hpc = "cm_updating", !.scored = TRUE,
                                        !.score = res[p].f,
                                        !.is_spam = IsSpam(res[p].f)]]
    /\ Enter(p, [NoCall EXCEPT !.op = "increment_sender_score", !.user_id = h[p].user,
                                !.is_spam = IsSpam(res[p].f)], "inc_lock")
    /\ UNCHANGED <<storeVars, rules, lockVars, up>>

\* The error of the update is returned with ?.
CheckMessageUpdatedReturnsError(p) ==
    /\ pc[p] = "ret" /\ h[p].hpc = "cm_updating"
    /\ LET hp == [h[p] EXCEPT !.score = F32(0),
                              !.incs = @ + (IF res[p].tag = "Ok" THEN 1 ELSE 0)]
       IN  h' = [h EXCEPT ![p] = IF res[p].tag = "Err" THEN Done(hp, "Err")
                                 ELSE IF h[p].is_spam
                                 THEN [hp EXCEPT !.hpc = "cm_notice"]
                                 ELSE Done(hp, "Ok")]
    /\ pc' = [pc EXCEPT ![p] = "idle"]
    /\ call' = [call EXCEPT ![p] = NoCall]
    /\ res' = [res EXCEPT ![p] = NoRes]
    /\ UNCHANGED <<storeVars, rules, lockVars, up>>

\* The update returned; its error is only logged.
CheckMessageUpdated(p) ==
    /\ pc[p] = "ret" /\ h[p].hpc = "cm_updating"
    /\ LET hp == [h[p] EXCEPT !.score = F32(0),
                              !.incs = @ + (IF res[p].tag = "Ok" THEN 1 ELSE 0)]
       IN  h' = [h EXCEPT ![p] = IF h[p].is_spam
                                 THEN [hp EXCEPT !.hpc = "cm_notice"]
                                 ELSE Done(hp, "Ok")]
    /\ pc' = [pc EXCEPT ![p] = "idle"]
    /\ call' = [call EXCEPT ![p] = NoCall]
    /\ res' = [res EXCEPT ![p] = NoRes]
    /\ UNCHANGED <<storeVars, rules, lockVars, up>>

\* bot.send_message(chat, "Spam detected! Admins notified.").await?, then
\* notify_admins begins with its read of the sender's score.
CheckMessageNotice(p) ==
    /\ pc[p] = "idle" /\ h[p].hpc = "cm_notice"
    /\ \E delivered \in BOOLEAN :
        IF delivered
        THEN /\ h' = [h EXCEPT ![p] = [@ EXCEPT !.hpc = "cm_notify",
                                                !.sent = @ \cup {"spam_notice"}]]
             /\ Enter(p, [NoCall EXCEPT !.op = "get_sender_score", !.user_id = h[p].user],
                       "get_lock")
        ELSE /\ h' = [h EXCEPT ![p] = Done(@, "Err")]
             /\ UNCHANGED <<pc, call, res>>
    /\ UNCHANGED <<storeVars, rules, lockVars, up>>

\* The rest of notify_admins; its result is only logged.
CheckMessageNotify(p) ==
    /\ pc[p] = "ret" /\ h[p].hpc = "cm_notify"
    /\ \E is_group \in BOOLEAN, admins \in {"err", "empty", "some"}, delivered \in BOOLEAN :
        LET n == NotifyAdmins(is_group, admins, delivered)
        IN  h' = [h EXCEPT ![p] = Done([@ EXCEPT !.sent = @ \cup n.sent], "Ok")]
    /\ pc' = [pc EXCEPT ![p] = "idle"]
    /\ call' = [call EXCEPT ![p] = NoCall]
    /\ res' = [res EXCEPT ![p] = NoRes]
    /\ UNCHANGED <<storeVars, rules, lockVars, up>>

\* /report: without a replied-to message the usage is sent; with one, its
\* text is scored.
ReportStart(p) ==
    /\ Idle(p)
    /\ BotRoomForIncrement
    /\ \/ \E delivered \in BOOLEAN :
            /\ h' = [h EXCEPT ![p] =
                        Done([NoHandler EXCEPT !.kind = "report",
                                               !.sent = IF delivered THEN {"reply_usage"} ELSE {}],
                             IF delivered THEN "Ok" ELSE "Err")]
            /\ UNCHANGED <<pc, call, res>>
       \/ \E text \in Texts \cup {NonText}, user \in BotUsers :
            /\ h' = [h EXCEPT ![p] = [NoHandler EXCEPT !.kind = "report", !.hpc = "rp_scoring",
                                                       !.user = user]]
            /\ Enter(p, [NoCall EXCEPT !.op = "check_custom_rules", !.text = text], "ccr")
    /\ UNCHANGED <<storeVars, rules, lockVars, up>>

ReportScored(p) ==
    /\ pc[p] = "ret" /\ h[p].hpc = "rp_scoring"
    /\ h' = [h EXCEPT ![p] = [@ EXCEPT !.hpc = "rp_reply", !.scored = TRUE,
                                        !.score = res[p].f,
                                        !.is_spam = IsSpam(res[p].f)]]
    /\ pc' = [pc EXCEPT ![p] = "idle"]
    /\ call' = [call EXCEPT ![p] = NoCall]
    /\ res' = [res EXCEPT ![p] = NoRes]
    /\ UNCHANGED <<storeVars, rules, lockVars, up>>

\* bot.send_message(chat, "Reported: ...").await?; only a spam verdict goes
\* on to the sender's record.
ReportReply(p) ==
    /\ pc[p] = "idle" /\ h[p].hpc = "rp_reply"
    /\ \E delivered \in BOOLEAN :
        IF ~delivered
        THEN /\ h' = [h EXCEPT ![p] = Done(@, "Err")]
             /\ UNCHANGED <<pc, call, res>>
        ELSE IF h[p].is_spam
             THEN /\ h' = [h EXCEPT ![p] = [@ EXCEPT !.hpc = "rp_updating",
                                                     !.score = F32(0),
                                                     !.sent = @ \cup {"reported"}]]
                  /\ Enter(p, [NoCall EXCEPT !.op = "increment_sender_score",
                                             !.user_id = h[p].user, !.is_spam = TRUE],
                            "inc_lock")
             ELSE /\ h' = [h EXCEPT ![p] = Done([@ EXCEPT !.sent = @ \cup {"reported"}], "Ok")]
                  /\ UNCHANGED <<pc, call, res>>
    /\ UNCHANGED <<storeVars, rules, lockVars, up>>

ReportUpdated(p) ==
    /\ pc[p] = "ret" /\ h[p].hpc = "rp_updating"
    /\ h' = [h EXCEPT ![p] = [@ EXCEPT !.hpc = "rp_notify",
                                        !.incs = @ + (IF res[p].tag = "Ok" THEN 1 ELSE 0)]]
    /\ Enter(p, [NoCall EXCEPT !.op = "get_sender_score", !.user_id = h[p].user], "get_lock")
    /\ UNCHANGED <<storeVars, rules, lockVars, up>>

\* notify_admins(...).await?.
ReportNotify(p) ==
    /\ pc[p] = "ret" /\ h[p].hpc = "rp_notify"
    /\ \E is_group \in BOOLEAN, admins \in {"err", "empty", "some"}, delivered \in BOOLEAN :
        LET n == NotifyAdmins(is_group, admins, delivered)
        IN  h' = [h EXCEPT ![p] = Done([@ EXCEPT !.sent = @ \cup n.sent],
                                       IF n.ok THEN "Ok" ELSE "Err")]
    /\ pc' = [pc EXCEPT ![p] = "idle"]
    /\ call' = [call EXCEPT ![p] = NoCall]
    /\ res' = [res EXCEPT ![p] = NoRes]
    /\ UNCHANGED <<storeVars, rules, lockVars, up>>

\* /add_rule <keyword> <score>: the admin check, the two parts, the score.
AddRuleCommand(p) ==
    /\ Idle(p)
    /\ RoomForRule
    /\ \E args \in ArgStrings, chat \in ChatCases, delivered \in BOOLEAN :
        LET hp == [NoHandler EXCEPT !.kind = "add_rule", !.chat = chat, !.args = args]
            parts == SplitWhitespace(args, <<>>, <<>>)
            reply(tag) == Done([hp EXCEPT !.sent = IF delivered THEN {tag} ELSE {}],
                               IF delivered THEN "Ok" ELSE "Err")
        IN  IF ~IsAdmin(chat = "private", chat # "group_fetch_error", chat = "group_admin")
            THEN /\ h' = [h EXCEPT ![p] = reply("only_admins")]
                 /\ UNCHANGED <<pc, call, res>>
            ELSE IF Len(parts) # 2
            THEN /\ h' = [h EXCEPT ![p] = reply("usage")]
                 /\ UNCHANGED <<pc, call, res>>
            ELSE IF ~ParseF32(parts[2]).ok
            THEN /\ h' = [h EXCEPT ![p] = reply("invalid_score")]
                 /\ UNCHANGED <<pc, call, res>>
            ELSE /\ h' = [h EXCEPT ![p] = [hp EXCEPT !.hpc = "ad_adding"]]
                 /\ Enter(p, [NoCall EXCEPT !.op = "add_rule", !.keyword = parts[1],
                                            !.score = ParseF32(parts[2]).val], "ar_lock")
    /\ UNCHANGED <<storeVars, rules, lockVars, up>>

\* The confirmation is sent whatever add_rule returned.
AddRuleRepliedAlwaysConfirms(p) ==
    /\ pc[p] = "ret" /\ h[p].hpc = "ad_adding"
    /\ \E delivered \in BOOLEAN :
        h' = [h EXCEPT ![p] = Done([@ EXCEPT !.sent = IF delivered THEN {"added_rule"} ELSE {}],
                                   IF delivered THEN "Ok" ELSE "Err")]
    /\ pc' = [pc EXCEPT ![p] = "idle"]
    /\ call' = [call EXCEPT ![p] = NoCall]
    /\ res' = [res EXCEPT ![p] = NoRes]
    /\ UNCHANGED <<storeVars, rules, lockVars, up>>

\* add_rule returned: the failure or the confirmation is sent.
AddRuleReplied(p) ==
    /\ pc[p] = "ret" /\ h[p].hpc = "ad_adding"
    /\ \E delivered \in BOOLEAN :
        LET tag == IF res[p].tag = "Err" THEN "failed_to_add" ELSE "added_rule"
        IN  h' = [h EXCEPT ![p] = Done([@ EXCEPT !.sent = IF delivered THEN {tag} ELSE {}],
                                       IF delivered THEN "Ok" ELSE "Err")]
    /\ pc' = [pc EXCEPT ![p] = "idle"]
    /\ call' = [call EXCEPT ![p] = NoCall]
    /\ res' = [res EXCEPT ![p] = NoRes]
    /\ UNCHANGED <<storeVars, rules, lockVars, up>>

\* /start.
StartCommand(p) ==
    /\ Idle(p)
    /\ \E delivered \in BOOLEAN :
        h' = [h EXCEPT ![p] = Done([NoHandler EXCEPT !.kind = "start",
                                                    !.sent = IF delivered THEN {"hello"} ELSE {}],
                                   IF delivered THEN "Ok" ELSE "Err")]
    /\ UNCHANGED <<storeVars, rules, lockVars, up, pc, call, res>>

\* The handler has returned, or its task died of a panic: the thread takes
\* the next update.
HandlerEnd(p) ==
    /\ Handling(p)
    /\ h[p].hpc = "done" \/ pc[p] = "panic"
    /\ h' = [h EXCEPT ![p] = NoHandler]
    /\ pc' = [pc EXCEPT ![p] = "idle"]
    /\ call' = [call EXCEPT ![p] = NoCall]
    /\ res' = [res EXCEPT ![p] = NoRes]
    /\ UNCHANGED <<storeVars, rules, lockVars, up>>

BotNext ==
    \/ \E p \in Procs : Method(p)
    \/ \E p \in Procs : CheckMessageStart(p)
    \/ \E p \in Procs : CheckMessageScored(p)
    \/ \E p \in Procs : CheckMessageUpdated(p)
    \/ \E p \in Procs : CheckMessageNotice(p)
    \/ \E p \in Procs : CheckMessageNotify(p)
    \/ \E p \in Procs : ReportStart(p)
    \/ \E p \in Procs : ReportScored(p)
    \/ \E p \in Procs : ReportReply(p)
    \/ \E p \in Procs : ReportUpdated(p)
    \/ \E p \in Procs : ReportNotify(p)
    \/ \E p \in Procs : AddRuleCommand(p)
    \/ \E p \in Procs : AddRuleReplied(p)
    \/ \E p \in Procs : StartCommand(p)
    \/ \E p \in Procs : HandlerEnd(p)
    \/ Restart

BotSpec == Init /\ [][BotNext]_vars

(***************************************************************************)
(* Properties.                                                             *)
(***************************************************************************)
InAddRule(p) == pc[p] \in {"ar_lock", "ar_exec", "ar_rlock", "ar_push"}

\* The sequence s is the beginning of the sequence t.
IsPrefix(s, t) == Len(s) <= Len(t) /\ SubSeq(t, 1, Len(s)) = s

CountInCache(row) == Cardinality({i \in DOMAIN rules : RowOf(rules[i]) = row})
CountInTable(row) == Cardinality({j \in DOMAIN rulesTable : rulesTable[j] = row})

\* C1: between taking the store lock and returning Ok, add_rule(k, s) adds
\* exactly one row to the rules table (the insert adds one, nothing else
\* adds any), and on return the cache holds an entry (k, s); when that row
\* is the table's only one, add_rule("spam", 10.0) leaves the cache as the
\* single entry {spam, 10.0}.
C1_AddRuleAddsOneRowAndCaches ==
    [][\A p \in Procs :
        /\ (pc[p] = "ar_exec" /\ pc'[p] = "ar_rlock")
              => Len(rulesTable') = Len(rulesTable) + 1
        /\ pc[p] \in {"ar_rlock", "ar_push"} => rulesTable' = rulesTable
        /\ (pc[p] = "ar_push" /\ pc'[p] = "ret")
              => /\ res'[p].tag = "Ok"
                 /\ \E i \in DOMAIN rules' :
                       rules'[i] = [keyword |-> call[p].keyword, score |-> call[p].score]
                 /\ (Len(rulesTable) = 1 /\ call[p].keyword = KwSpam
                                          /\ call[p].score = F32(100))
                       => rules' = <<[keyword |-> KwSpam, score |-> F32(100)]>>
    ]_vars

\* A successful add_rule has returned and the table holds two rules of the
\* same keyword.
C1_Witness ==
    \E p \in Procs :
        /\ pc[p] = "ret" /\ call[p].op = "add_rule" /\ res[p].tag = "Ok"
        /\ Len(rulesTable) = 2 /\ Len(rules) = 2
        /\ rulesTable[1].keyword = rulesTable[2].keyword

\* C2: every cache entry has its row in the rules table (as many rows as
\* entries), and an add_rule whose insert fails returns an error and leaves
\* the cache as it was.
C2_CacheOnlyAfterStore ==
    /\ [](\A i \in DOMAIN rules :
             CountInCache(RowOf(rules[i])) <= CountInTable(RowOf(rules[i])))
    /\ [][\A p \in Procs :
             (pc[p] = "ar_exec" /\ pc'[p] = "ret")
                => (res'[p].tag = "Err" /\ rules' = rules /\ rulesTable' = rulesTable)
       ]_vars

\* An add_rule has failed on a store that holds a cached rule.
C2_Witness ==
    \E p \in Procs :
        /\ pc[p] = "ret" /\ call[p].op = "add_rule" /\ res[p].tag = "Err"
        /\ Len(rules) = 1 /\ Len(rulesTable) = 1

\* C3: whenever the manager is up and no thread is inside add_rule, the
\* cache holds every row of the rules table (as many entries as rows).
C3_CacheCoversStoreWhenQuiet ==
    (up = "running" /\ \A p \in Procs : ~InAddRule(p))
        => \A j \in DOMAIN rulesTable :
              CountInCache(rulesTable[j]) >= CountInTable(rulesTable[j])

\* Two rules are stored, no add_rule is running, and the other methods are
\* under way: an upsert holds the store lock while a score is being computed.
C3_Witness ==
    /\ up = "running" /\ Len(rulesTable) = 2
    /\ \A p \in Procs : ~InAddRule(p)
    /\ \E p, q \in Procs : pc[p] = "inc_exec" /\ pc[q] = "ccr"

\* C4: a successful increment_sender_score(id, flagged) adds 1 to the
\* sender's message_count and (1 if flagged, else 0) to its spam_score; for
\* a sender without a row it creates one with message_count 1 and that
\* spam_score.
C4_IncrementAddsOne ==
    [][\A p \in Procs :
        (pc[p] = "inc_exec" /\ pc'[p] = "ret" /\ res'[p].tag = "Ok")
           => LET u == call[p].user_id
                  d == IF call[p].is_spam THEN 1 ELSE 0
              IN  /\ u \in DOMAIN senders'
                  /\ IF u \in DOMAIN senders
                     THEN /\ senders'[u].message_count = senders[u].message_count + 1
                          /\ senders'[u].spam_score = senders[u].spam_score + d
                     ELSE /\ senders'[u].message_count = 1
                          /\ senders'[u].spam_score = d
    ]_vars

\* An upsert has returned Ok on a sender that already had a row.
C4_Witness ==
    \E p \in Procs, u \in SenderIds :
        /\ pc[p] = "ret" /\ call[p].op = "increment_sender_score" /\ res[p].tag = "Ok"
        /\ u \in DOMAIN senders /\ senders[u].message_count = 2

\* C5: a sender whose only successful updates are one flagged and one
\* unflagged has message_count 2 and spam_score 1, whatever was recorded
\* for other senders; and an update for one sender changes no other
\* sender's row, nor creates or removes one.
C5_IsolationPerSender ==
    /\ [](\A u \in SenderIds :
             acked[u] = [calls |-> 2, spam |-> 1]
                => (u \in DOMAIN senders
                    /\ senders[u] = [spam_score |-> 1, message_count |-> 2]))
    /\ [][\A p \in Procs :
             pc[p] = "inc_exec"
                => \A v \in SenderIds \ {call[p].user_id} :
                      /\ (v \in DOMAIN senders') = (v \in DOMAIN senders)
                      /\ v \in DOMAIN senders => senders'[v] = senders[v]
       ]_vars

\* One sender has had a flagged and an unflagged update while another
\* sender's update was recorded too.
C5_Witness ==
    \E u, v \in SenderIds :
        /\ u # v
        /\ acked[u] = [calls |-> 2, spam |-> 1]
        /\ acked[v].calls = 1
        /\ senders[u] = [spam_score |-> 1, message_count |-> 2]

\* C6: a thread that is executing a store operation holds the store lock,
\* and every sender's row counts exactly its successful updates: N of them,
\* F flagged, give message_count N and spam_score F.
C6_NoLostUpdates ==
    /\ \A p \in Procs :
          pc[p] \in {"ar_exec", "ar_rlock", "ar_push", "inc_exec", "get_prepare", "get_query"}
             => connOwner = p
    /\ \A u \in SenderIds :
          IF acked[u].calls = 0 THEN u \notin DOMAIN senders
          ELSE /\ u \in DOMAIN senders
               /\ senders[u] = [spam_score |-> acked[u].spam,
                                message_count |-> acked[u].calls]

\* Two threads have each completed an update of the same sender.
C6_Witness ==
    \E u \in SenderIds :
        /\ acked[u].calls = 2
        /\ \A p \in Procs :
              pc[p] = "ret" /\ call[p].op = "increment_sender_score" /\ res[p].tag = "Ok"

\* C7: no step lowers a sender's spam_score or message_count or removes a
\* sender's row, and an unflagged update leaves the spam_score of an
\* existing row as it was.
C7_ReputationMonotone ==
    [][/\ \A u \in DOMAIN senders :
             /\ u \in DOMAIN senders'
             /\ senders'[u].spam_score >= senders[u].spam_score
             /\ senders'[u].message_count >= senders[u].message_count
       /\ \A p \in Procs :
             (pc[p] = "inc_exec" /\ ~call[p].is_spam /\ call[p].user_id \in DOMAIN senders)
                => senders'[call[p].user_id].spam_score = senders[call[p].user_id].spam_score
    ]_vars

\* A sender flagged once has had two further updates, at least one of
\* them unflagged, on its existing row.
C7_Witness ==
    \E u \in SenderIds :
        /\ acked[u].calls = 3 /\ acked[u].spam \in {1, 2}
        /\ senders[u].message_count = 3

\* C8: every evaluated message updates its author's record exactly once:
\* a handler that has computed a score for a message and has returned Ok
\* (every message it had to send was delivered) has made exactly one
\* successful update of the author's record.
C8_ExactlyOneUpdatePerEvaluation ==
    \A p \in Procs :
        (h[p].hpc = "done" /\ h[p].scored /\ h[p].result = "Ok") => h[p].incs = 1

\* C9: get_sender_score never panics.
C9_GetSenderScoreNeverPanics ==
    \A p \in Procs : call[p].op = "get_sender_score" => pc[p] # "panic"

\* C10: get_sender_score returns 0 for a sender of which no update has
\* ever succeeded.
C10_UnknownSenderScoresZero ==
    \A p \in Procs :
        (pc[p] = "ret" /\ call[p].op = "get_sender_score"
                       /\ acked[call[p].user_id].calls = 0)
           => (res[p].tag = "i32" /\ res[p].n = 0)

\* A score read has returned for a sender never updated, while another
\* sender has a spam score of 1.
C10_Witness ==
    \E p \in Procs, v \in SenderIds :
        /\ pc[p] = "ret" /\ call[p].op = "get_sender_score"
        /\ acked[call[p].user_id].calls = 0
        /\ v \in DOMAIN senders /\ senders[v].spam_score = 1

\* C11: get_sender_score is a pure read: no step of it changes the senders
\* table, the rules table or the rule cache, and two calls for the same
\* sender between whose reads the sender's record was not written return
\* the same value.
C11_GetSenderScorePureRead ==
    /\ [](\A p, q \in Procs :
             (/\ pc[p] = "ret" /\ call[p].op = "get_sender_score"
              /\ pc[q] = "ret" /\ call[q].op = "get_sender_score"
              /\ call[p].user_id = call[q].user_id
              /\ res[p].seen = res[q].seen)
                => res[p].n = res[q].n)
    /\ [][\A p \in Procs :
             (pc[p] \in {"get_lock", "get_prepare", "get_query"}
                /\ pc'[p] \in {"get_prepare", "get_query", "ret", "panic"})
                => (rulesTable' = rulesTable /\ senders' = senders /\ rules' = rules)
       ]_vars

\* C12: at both places where a score is classified (check_message and
\* /report) the message is spam exactly when its score is at least 5.0: a
\* score of exactly 5.0 is spam, a score below 5.0 is not.
C12_InclusiveThreshold ==
    \A p \in Procs :
        h[p].hpc \in {"cm_updating", "rp_reply"}
           => (h[p].is_spam <=> (~h[p].score.nan /\ h[p].score.t >= 50))

\* An automatic check has classified a score of exactly 5.0 as spam while
\* a /report has classified a score of 4.9 as not spam.
C12_Witness ==
    \E p, q \in Procs :
        /\ h[p].kind = "check_message" /\ h[p].scored
        /\ h[p].score = F32(50) /\ h[p].is_spam
        /\ h[q].kind = "report" /\ h[q].scored
        /\ h[q].score = F32(49) /\ ~h[q].is_spam

\* C13: a script that cannot be read, fails to load or run, lacks check_spam
\* or returns no number makes check_custom_rules return 0.0 without raising;
\* check_message then classifies the message as not spam and goes on to
\* update the sender's record with is_spam false, a successful update adds
\* one to the sender's message_count, and a message that is not spam leads
\* to no notification and to the handler returning Ok.
C13_ScriptFailuresAreSoft ==
    /\ [](\A p \in Procs :
             /\ (call[p].op = "check_custom_rules" /\ pc[p] # "ccr")
                   => (pc[p] = "ret" /\ res[p].tag = "f32")
             /\ (pc[p] = "ret" /\ call[p].op = "check_custom_rules"
                                /\ res[p].script \in FailingScripts)
                   => res[p].f = F32(0)
             /\ (h[p].kind = "check_message" /\ h[p].scored /\ ~h[p].is_spam)
                   => (h[p].sent = {} /\ h[p].result \in {"", "Ok"}))
    /\ [][\A p \in Procs :
             /\ (pc[p] = "ret" /\ h[p].hpc = "cm_scoring"
                                /\ res[p].script \in FailingScripts
                                /\ h'[p] # h[p] /\ h'[p].hpc # "none")
                   => /\ h'[p].hpc = "cm_updating" /\ ~h'[p].is_spam
                      /\ pc'[p] = "inc_lock"
                      /\ call'[p].op = "increment_sender_score"
                      /\ call'[p].user_id = h[p].user /\ ~call'[p].is_spam
             /\ (h[p].hpc = "cm_updating" /\ ~h[p].is_spam /\ pc[p] = "inc_exec"
                                /\ pc'[p] = "ret" /\ res'[p].tag = "Ok")
                   => senders'[h[p].user].message_count
                         = MessageCount(senders, h[p].user) + 1
             /\ (h[p].hpc = "cm_updating" /\ ~h[p].is_spam /\ pc[p] = "ret"
                                /\ h'[p] # h[p] /\ h'[p].hpc # "none")
                   => (h'[p].hpc = "done" /\ h'[p].result = "Ok" /\ h'[p].sent = {}
                       /\ h'[p].incs = (IF res[p].tag = "Ok" THEN 1 ELSE 0))
       ]_vars

\* check_message has received 0.0 for a text holding "spam" from a script
\* with a syntax error, while another message that was not spam has been
\* handled to the end: one update, nothing sent.
C13_Witness ==
    \E p, q \in Procs :
        /\ pc[p] = "ret" /\ h[p].hpc = "cm_scoring"
        /\ res[p].script = "syntax_error" /\ call[p].text = "This is spam"
        /\ res[p].f = F32(0)
        /\ h[q].kind = "check_message" /\ h[q].hpc = "done" /\ h[q].scored
        /\ ~h[q].is_spam /\ h[q].incs = 1 /\ h[q].sent = {} /\ h[q].result = "Ok"

C15_FailedUpdateDoesNotBlock ==
    /\ [](\A p \in Procs :
             /\ h[p].hpc = "cm_notify"
                   => ("spam_notice" \in h[p].sent /\ call[p].op = "get_sender_score")
             /\ h[p].hpc = "rp_notify" => call[p].op = "get_sender_score"
             /\ (h[p].kind = "check_message" /\ h[p].hpc = "done" /\ h[p].is_spam)
                   => (h[p].result = "Err" <=> "spam_notice" \notin h[p].sent)
             /\ (h[p].kind = "report" /\ h[p].hpc = "done" /\ h[p].is_spam
                                       /\ h[p].result = "Err")
                   => h[p].sent \cap AdminNotifications = {})
    /\ [][\A p \in Procs :
             (/\ pc[p] = "ret" /\ res[p].tag = "Err" /\ h[p].is_spam
              /\ h[p].hpc \in {"cm_updating", "rp_updating"}
              /\ h'[p] # h[p] /\ h'[p].hpc # "none")
                => /\ h'[p].result = "" /\ h'[p].incs = h[p].incs
                   /\ h[p].hpc = "cm_updating" => h'[p].hpc = "cm_notice"
                   /\ h[p].hpc = "rp_updating"
                         => (h'[p].hpc = "rp_notify" /\ pc'[p] = "get_lock")
       ]_vars

\* A spam message whose update failed has been handled to the end: the
\* notice and an admin notification were sent and the handler returned Ok;
\* a /report whose update failed is reading the score for its notification.
C15_Witness ==
    \E p, q \in Procs :
        /\ h[p].kind = "check_message" /\ h[p].hpc = "done" /\ h[p].is_spam
        /\ h[p].incs = 0 /\ h[p].sent = {"spam_notice", "admin_dm"}
        /\ h[p].result = "Ok"
        /\ h[q].hpc = "rp_notify" /\ h[q].incs = 0 /\ pc[q] = "get_query"

\* C16: the handlers call add_rule only for an /add_rule whose sender passed
\* the admin check (a private chat, or a group whose fetched administrators
\* list the sender) and whose arguments are a keyword and a parseable score;
\* a request that fails the check, whose check fails with an error, or that
\* is malformed ends with a reply and no call; and the rules table and the
\* rule cache change only in steps of add_rule called for such a request
\* (a restart, which leaves every thread idle, reloads the cache).
C16_AddRuleOnlyWhenAuthorized ==
    /\ [](\A p \in Procs :
             (Handling(p) /\ (call[p].op = "add_rule" \/ h[p].hpc = "ad_adding"))
                => /\ h[p].kind = "add_rule" /\ h[p].hpc = "ad_adding"
                   /\ h[p].chat \in {"private", "group_admin"}
                   /\ h[p].args = <<"s", "p", "a", "m", " ", "1", "0">>)
    /\ [][(rulesTable' # rulesTable \/ (rules' # rules /\ pc' # [p \in Procs |-> "idle"]))
             => \E p \in Procs :
                   /\ h[p].hpc = "ad_adding" /\ call[p].op = "add_rule"
                   /\ pc[p] \in {"ar_exec", "ar_push"}
                   /\ h[p].chat \in {"private", "group_admin"}
       ]_vars

\* A request refused by the admin check and one with an unparseable score
\* have been answered, and the store and the cache hold no rule.
C16_Witness ==
    \E p, q \in Procs :
        /\ h[p].kind = "add_rule" /\ h[p].hpc = "done" /\ h[p].sent = {"only_admins"}
        /\ h[q].kind = "add_rule" /\ h[q].hpc = "done" /\ h[q].sent = {"invalid_score"}
        /\ rulesTable = <<>> /\ rules = <<>>

\* C17: when add_rule returns an error to the /add_rule handler, the reply
\* the handler sends is "Failed to add rule." and never the confirmation (a
\* handler that returns Ok has delivered it); the "Added rule" confirmation
\* is sent only when add_rule returned Ok, so only with the rule's row in the
\* rules table.
C17_FailedAddIsReported ==
    /\ [](\A p \in Procs :
             (h[p].kind = "add_rule" /\ "added_rule" \in h[p].sent)
                => \E i \in DOMAIN rulesTable :
                      rulesTable[i] = RowOf([keyword |-> KwSpam, score |-> F32(100)]))
    /\ [][\A p \in Procs :
             (/\ pc[p] = "ret" /\ h[p].hpc = "ad_adding"
              /\ h'[p] # h[p] /\ h'[p].hpc # "none")
                => /\ h'[p].hpc = "done"
                   /\ res[p].tag = "Err"
                         => /\ h'[p].sent \subseteq {"failed_to_add"}
                            /\ h'[p].result = "Ok" <=> h'[p].sent = {"failed_to_add"}
                   /\ res[p].tag = "Ok"
                         => /\ h'[p].sent \subseteq {"added_rule"}
                            /\ h'[p].result = "Ok" <=> h'[p].sent = {"added_rule"}
                   /\ "added_rule" \in h'[p].sent => res[p].tag = "Ok"
       ]_vars

\* One /add_rule has been answered with the failure reply while the other
\* has been confirmed.
C17_Witness ==
    \E p, q \in Procs :
        /\ h[p].kind = "add_rule" /\ h[p].hpc = "done"
        /\ h[p].sent = {"failed_to_add"} /\ h[p].result = "Ok"
        /\ h[q].kind = "add_rule" /\ h[q].hpc = "done"
        /\ h[q].sent = {"added_rule"} /\ h[q].result = "Ok"

C19_CacheRebuiltFromStore ==
    [][Restart =>
          /\ rulesTable' = rulesTable /\ senders' = senders
          /\ up' # "open_failed"
                => /\ up' = "running"
                   /\ Len(rules') = Len(rulesTable)
                   /\ \A i \in DOMAIN rulesTable : RowOf(rules'[i]) = rulesTable[i]
                   /\ (up = "running" /\ \A p \in Procs : ~InAddRule(p))
                         => rules' = rules
    ]_vars

\* C20: rules are append-only: every step leaves the rows the rules table
\* had, in their order, as the beginning of the table, and, from a running
\* manager to a running manager, the entries the cache had as the beginning
\* of the cache; add_rule's insert appends its row and its push appends its
\* entry whatever is already there, an equal rule included.
C20_RulesAppendOnly ==
    [][/\ IsPrefix(rulesTable, rulesTable')
       /\ (up = "running" /\ up' = "running") => IsPrefix(rules, rules')
       /\ \A p \in Procs :
             /\ (pc[p] = "ar_exec" /\ pc'[p] = "ar_rlock")
                   => rulesTable' = Append(rulesTable, RowOf([keyword |-> call[p].keyword,
                                                              score |-> call[p].score]))
             /\ (pc[p] = "ar_push" /\ pc'[p] = "ret")
                   => rules' = Append(rules, [keyword |-> call[p].keyword,
                                              score |-> call[p].score])
    ]_vars

\* The rule (spam, 10.0) has been added twice: the table holds two equal
\* rows and the cache two equal entries.
C20_Witness ==
    /\ Len(rulesTable) = 2 /\ rulesTable[1] = rulesTable[2]
    /\ rules = <<[keyword |-> KwSpam, score |-> F32(100)],
                 [keyword |-> KwSpam, score |-> F32(100)]>>
    /\ \A p \in Procs : ~InAddRule(p)

\* C21: every execution of check_message on a message classified as spam
\* invokes notify_admins: the handler of such a message returns only from
\* notify_admins, never from a step before it.
C21_SpamAlwaysReachesNotifyAdmins ==
    [][\A p \in Procs :
          (/\ h[p].kind = "check_message" /\ h[p].is_spam
           /\ h[p].hpc # "done" /\ h'[p].hpc = "done")
             => h[p].hpc = "cm_notify"
    ]_vars

\* C22: notify_admins makes the spam visible whenever it returns Ok: in a
\* group whose administrators cannot be fetched, are none, or cannot be
\* reached in private, the fallback notification is sent in the group. A
\* /report on spam that returned Ok (notify_admins returned Ok to it) has
\* therefore delivered a notification: to an admin, as the fallback in the
\* group, or in the private chat.
C22_NotifyAdminsFallsBack ==
    \A p \in Procs :
        (h[p].kind = "report" /\ h[p].hpc = "done" /\ h[p].is_spam
                              /\ h[p].result = "Ok")
           => h[p].sent \cap AdminNotifications # {}

\* C23: in every reachable state every sender record has
\* 0 <= spam_score <= message_count and message_count >= 1.
C23_SenderRecordBounds ==
    \A u \in DOMAIN senders :
        /\ 0 <= senders[u].spam_score
        /\ senders[u].spam_score <= senders[u].message_count
        /\ senders[u].message_count >= 1

\* One sender's record counts two messages of which one was spam, while
\* another's counts one message, which was spam.
C23_Witness ==
    \E u, v \in DOMAIN senders :
        /\ senders[u].message_count = 2 /\ senders[u].spam_score = 1
        /\ senders[v].message_count = 1 /\ senders[v].spam_score = 1

(***************************************************************************)
(* Scheduling: a thread inside a method keeps running, and a thread that   *)
(* waits for a mutex which is free again and again eventually takes it.    *)
(***************************************************************************)
LockingMethod(p) ==
    \/ AddRuleLock(p) \/ AddRuleExec(p) \/ AddRuleCacheLock(p) \/ AddRulePush(p)
    \/ IncrementLock(p) \/ IncrementExec(p)
    \/ GetLock(p) \/ GetPrepare(p) \/ GetQuery(p)

\* One run of the process: threads calling the three methods that lock.
LockNext ==
    \/ \E p \in Procs : LockingMethod(p)
    \/ \E p \in Procs : CallAddRule(p)
    \/ \E p \in Procs : CallIncrementSenderScore(p)
    \/ \E p \in Procs : CallGetSenderScore(p)
    \/ \E p \in Procs : Return(p)

Fairness == \A p \in Procs : SF_vars(LockingMethod(p))

FairSpec == Init /\ [][LockNext]_vars /\ Fairness

\* Inside add_rule, increment_sender_score or get_sender_score.
InLockingCall(p) ==
    pc[p] \in {"ar_lock", "ar_exec", "ar_rlock", "ar_push",
               "inc_lock", "inc_exec", "get_lock", "get_prepare", "get_query"}

C25_CacheOrderIsInsertionOrder ==
    up = "running" =>
        /\ Len(rules) <= Len(rulesTable)
        /\ \A i \in DOMAIN rules : RowOf(rules[i]) = rulesTable[i]
        /\ \A p \in Procs : pc[p] \in {"ar_rlock", "ar_push"} => connOwner = p
        /\ (\A p \in Procs : ~InAddRule(p))
              => /\ Len(rules) = Len(rulesTable)
                 /\ New(rulesTable).ok => rules = New(rulesTable).rules

\* Two add_rule calls of different rules run together: one has inserted its
\* row and holds both locks before its push, the other waits for the store
\* lock.
C25_Witness ==
    \E p, q \in Procs :
        /\ pc[p] = "ar_push" /\ pc[q] = "ar_lock"
        /\ call[p].keyword # call[q].keyword
        /\ Len(rulesTable) = 1 /\ rules = <<>>

====
